---- MODULE Spec2Model ----
(***************************************************************************)
(* Demand forecasting, reorder suggestions and price optimization of the   *)
(* electronics store (src/ai_analytics.py) together with the API handlers  *)
(* that run them (src/enhanced_main.py).                                   *)
(*                                                                         *)
(* Every API request builds its own DemandForecaster (create_ai_analytics) *)
(* and runs in its own worker; the only state the workers share is the     *)
(* models/ directory with one model file and one scaler file per product.  *)
(*                                                                         *)
(* Units: quantities handed to or returned by an estimator are in          *)
(* thousandths of a unit, reported (rounded) quantities in hundredths,     *)
(* the trailing average of the simple reorder calculation in tenths.       *)
(***************************************************************************)
EXTENDS Integers, Sequences, FiniteSets, TLC

(***************************************************************************)
(* Bounds of the model.                                                    *)
(***************************************************************************)
MaxRuns == 3        \* training runs that get past the data checks
MaxRequests == 3    \* API requests started in one behaviour
MaxDays == 2        \* largest days_ahead of a demand-forecast request
MaxMae == 1         \* held-out errors range over 0..MaxMae

Workers == {"w1", "w2"}
Products == {1, 2}

(***************************************************************************)
(* Program constants.                                                      *)
(***************************************************************************)
MinRawRows == 30        \* len(sales_data) < 30
MinCleanRows == 20      \* len(features_df) < 20
LongestLag == 30        \* lags [1, 7, 14, 30], windows [7, 14, 30]
InfScore == 1000000     \* float('inf')
ReorderHorizon == 30    \* predict_demand(product_id, days_ahead=30)
SimpleDays == 14        \* daily_demand * 14 * 1.5
SimpleSupplyDays == 30  \* daily_demand * 30
DefaultDemandTenths == 1 \* float(avg_sales[0] or 0.1)

CandidateOrder == <<"random_forest", "gradient_boosting", "linear_regression">>
Kinds == {CandidateOrder[i] : i \in 1..Len(CandidateOrder)}

\* db.query(Product.product_id).all()
ProductList == <<1, 2>>

ErrRaw == "Insufficient historical data"
ErrClean == "Insufficient clean data after feature extraction"
ErrRecent == "No recent sales data available"
ErrPersist == "persistence failure"
ErrNoScaler == "scaler file not found"
ErrEstimator == "estimator rejected the feature vector"
ErrZeroDiv == "division by zero"
ErrQuery == "query failed"

(***************************************************************************)
(* Sales history of a product, as get_sales_data and the SQL of the        *)
(* reorder calculation see it:                                             *)
(*   rows       raw sale-item rows of the last 365 days                    *)
(*   span       rows of the daily frame: one per day from the first to the *)
(*              last sale date                                             *)
(*   constPrice every price equal and exactly representable (50): the      *)
(*              standard deviation of the price column is 0.0              *)
(*   recent     raw quantities of the last 90 days, oldest first           *)
(***************************************************************************)
NoSales == [rows |-> 0, span |-> 0, constPrice |-> FALSE, recent |-> <<>>]
Sparse29 == [rows |-> 29, span |-> 60, constPrice |-> FALSE, recent |-> <<3000>>]
Const45 == [rows |-> 45, span |-> 45, constPrice |-> TRUE, recent |-> <<10000, 10000>>]
Vary45 == [rows |-> 45, span |-> 45, constPrice |-> FALSE, recent |-> <<10000, 10000>>]
Old50 == [rows |-> 30, span |-> 50, constPrice |-> FALSE, recent |-> <<>>]
Rich60 == [rows |-> 60, span |-> 60, constPrice |-> FALSE, recent |-> <<2000, 3000>>]

Histories == {NoSales, Sparse29, Const45, Vary45, Old50, Rich60}

\* Outputs of an estimator's predict, before clamping (thousandths).
RawPredictions == {-1500, 2006}

\* AVG(daily_quantity) of the last 30 days at one location, in tenths; -1 is NULL.
NullAvg == 0 - 1
TrailingAverages(h) == IF h.recent = <<>> THEN {NullAvg} ELSE {NullAvg, 0, 5, 15}

(***************************************************************************)
(* train_demand_model: the data checks and the choice of the winner.       *)
(***************************************************************************)

\* Rows of the daily frame that survive dropna(): shift(30) and rolling(30)
\* leave NaN in the first 30 rows, and with a price deviation of 0.0
\* price_vs_avg = (x - mean) / 0.0 is NaN in every row.
CleanRows_AllKept(h) == h.span
CleanRows(h) ==
    IF h.constPrice THEN 0
    ELSE IF h.span > LongestLag THEN h.span - LongestLag ELSE 0

EnoughRaw_OffByOne(h) == h.rows >= MinRawRows - 1
EnoughRaw(h) == ~(h.rows < MinRawRows)

\* "ok", or the message of the error dict the checks return.
TrainCheck(h) ==
    IF ~EnoughRaw(h) THEN ErrRaw
    ELSE IF CleanRows(h) < MinCleanRows THEN ErrClean
    ELSE "ok"

\* if mae < best_score
Improves(mae, best) == mae < best

RECURSIVE SelectFrom(_, _, _)
SelectFrom(maes, i, best) ==
    IF i > Len(CandidateOrder) THEN best
    ELSE LET name == CandidateOrder[i]
         IN  SelectFrom(maes, i + 1,
                        IF Improves(maes[name], best.score)
                        THEN [name |-> name, score |-> maes[name]]
                        ELSE best)

\* for name, model in models.items(): ... keeps the first candidate of least error
SelectBest(maes) == SelectFrom(maes, 1, [name |-> "none", score |-> InfScore])

(***************************************************************************)
(* Rounding.  round(x, n) rounds to the nearest value, a tie to the even   *)
(* neighbour.  RoundDiv(n, d) is n / d rounded to an integer, d > 0.       *)
(***************************************************************************)
RoundDiv(n, d) ==
    LET q == n \div d
        r == n % d
    IN  IF 2 * r < d THEN q
        ELSE IF 2 * r > d THEN q + 1
        ELSE IF q % 2 = 0 THEN q ELSE q + 1

(***************************************************************************)
(* predict_demand: the day-by-day walk.                                    *)
(***************************************************************************)

\* pred = max(0, pred)
Clamp_None(x) == x
Clamp(x) == IF x > 0 THEN x ELSE 0

\* feature_row['sales_lag_1'] = recent_quantities[-1], 0 when there is none
Lag1(buffer) == IF Len(buffer) >= 1 THEN buffer[Len(buffer)] ELSE 0

\* The quantities the next day's features are computed from: each day
\* re-reads recent_sales['quantity'], which the loop never changes.
NextBuffer(buffer, pred) == buffer

\* round(pred, 2): thousandths to hundredths
Reported(pred) == RoundDiv(pred, 10)

\* One forecast day: the model is fetched from the cache, and the scaler too
\* if the model has coef_ (linear regression).  scaler = 0: not used.
DayRow(buffer, raw, model, scaler) ==
    [lag1 |-> Lag1(buffer),
     pred |-> Clamp(raw),
     predicted_demand |-> Reported(Clamp(raw)),
     model |-> model.run,
     scaler |-> IF model.kind = "linear_regression" THEN scaler ELSE 0]

RECURSIVE WalkFrom(_, _, _, _, _, _)
WalkFrom(buffer, raws, k, model, scaler, acc) ==
    IF k > Len(raws) THEN acc
    ELSE LET row == DayRow(buffer, raws[k], model, scaler)
         IN  WalkFrom(NextBuffer(buffer, row.pred), raws, k + 1, model, scaler,
                      Append(acc, row))

Walk(recent, raws, model, scaler) == WalkFrom(recent, raws, 1, model, scaler, <<>>)

RECURSIVE SumPred(_)
SumPred(rows) == IF rows = <<>> THEN 0 ELSE rows[1].pred + SumPred(Tail(rows))

\* total_predicted = sum(p['predicted_demand'] for p in predictions)
SumDemand_FromRaw(rows) == Reported(SumPred(rows))
RECURSIVE SumDemand(_)
SumDemand(rows) ==
    IF rows = <<>> THEN 0 ELSE rows[1].predicted_demand + SumDemand(Tail(rows))

Err(call, msg) == [call |-> call, ok |-> FALSE, error |-> msg]

\* The dict predict_demand returns once the walk is over; total / days_ahead
\* raises ZeroDivisionError for days_ahead = 0.
ForecastResult(rows) ==
    LET total == SumDemand(rows)
    IN  IF Len(rows) = 0 THEN Err("predict", ErrZeroDiv)
        ELSE [call |-> "predict", ok |-> TRUE,
              predictions |-> rows,
              total_predicted_demand |-> total,
              average_daily_demand |-> RoundDiv(total, Len(rows))]

(***************************************************************************)
(* calculate_reorder_point and _simple_reorder_calculation.                *)
(***************************************************************************)

\* daily_demand = float(avg_sales[0] or 0.1), in tenths
SimpleDemand_NoDefault(avg) == IF avg = NullAvg THEN 0 ELSE avg
SimpleDemand(avg) == IF avg = NullAvg \/ avg = 0 THEN DefaultDemandTenths ELSE avg

\* The dict of the simple calculation; 1.5 = 15 / 10 and the demand is in
\* tenths, so daily_demand * 14 * 1.5 = d * 14 * 15 / 100.
SimpleResult(avg) ==
    LET d == SimpleDemand(avg)
    IN  [call |-> "reorder", ok |-> TRUE, source |-> "fallback",
         reorder_point |-> RoundDiv(d * SimpleDays * 15, 100),
         economic_order_quantity |-> RoundDiv(d * SimpleSupplyDays, 10),
         average_daily_demand |-> d,
         method |-> "simple"]

\* The dict of the forecast-based calculation: it has no "method" key.
StatisticalResult(forecast) ==
    [call |-> "reorder", ok |-> TRUE, source |-> "forecast",
     average_daily_demand |-> forecast.average_daily_demand,
     method |-> "absent"]

(***************************************************************************)
(* The daily frame of train_demand_model, lines 109-129.  sales.sale_date  *)
(* is a DateTime column filled by the server clock, so a sale date is a    *)
(* calendar day and a time of day (a slot).  sold maps each such instant   *)
(* to the total quantity of the sale rows dated that instant, 0 for none.  *)
(***************************************************************************)
LastSaleDay == 2
LastSlot == 1

Instants == (1..LastSaleDay) \X (0..LastSlot)
AtOrBefore(a, b) == a[1] < b[1] \/ (a[1] = b[1] /\ a[2] <= b[2])

\* groupby(['product_id', 'sale_date']): one group for each distinct value
\* of sale_date.
Groups(sold) == {t \in Instants : sold[t] > 0}

\* pd.date_range(start=min, end=max, freq='D'): the instants min, min + 1
\* day, ... that are not after max; they keep min's time of day.
DateRange(first, last) ==
    LET periods == IF first[2] <= last[2] THEN last[1] - first[1] + 1
                   ELSE last[1] - first[1]
    IN  [k \in 1..periods |-> <<first[1] + k - 1, first[2]>>]

\* The left merge on sale_date and fillna(0): a row of the range gets the
\* quantity of the group dated exactly its instant, else 0.
DailySeries(sold) ==
    LET first == CHOOSE t \in Groups(sold) : \A u \in Groups(sold) : AtOrBefore(t, u)
        last == CHOOSE t \in Groups(sold) : \A u \in Groups(sold) : AtOrBefore(u, t)
        dates == DateRange(first, last)
    IN  [k \in 1..Len(dates) |->
            [sale_date |-> dates[k], quantity |-> sold[dates[k]]]]

(***************************************************************************)
(* The names of the features, in column order: those train_demand_model    *)
(* fits an estimator on, and those of the row predict_demand builds for    *)
(* each day.                                                               *)
(***************************************************************************)
RecentTail == 30

\* The columns of the daily frame of lines 113-129.
DailyColumns == <<"sale_date", "product_id", "quantity", "price">>

TimeFeatures ==
    <<"day_of_week", "month", "quarter", "is_weekend",
      "sin_month", "cos_month", "sin_day", "cos_day">>
LagFeatures == <<"sales_lag_1", "sales_lag_7", "sales_lag_14", "sales_lag_30">>
RollingFeatures ==
    <<"sales_mean_7", "sales_std_7", "sales_mean_14", "sales_std_14",
      "sales_mean_30", "sales_std_30">>
PriceFeatures == <<"price_change", "price_vs_avg">>

Has(columns, name) == \E k \in 1..Len(columns) : columns[k] = name

\* extract_features: the columns it appends to a frame, the price features
\* only to a frame that has a price column.
ExtractFeatures(columns) ==
    columns \o TimeFeatures \o LagFeatures \o RollingFeatures
        \o (IF Has(columns, "price") THEN PriceFeatures ELSE <<>>)

\* Lines 140-141: the columns the estimators and the scaler are fitted on.
NotTrainFeature(name) ==
    name \in {"sale_date", "product_id", "quantity", "product_name"}
TrainColumns ==
    SelectSeq(ExtractFeatures(DailyColumns), LAMBDA name : ~NotTrainFeature(name))

\* Lines 238-276: the keys of feature_row in the order they are inserted,
\* with n recent quantities: the lags and rolling statistics the history is
\* long enough for, then (lines 272-276) the missing ones, filled with 0.
RowKeys(n) ==
    LET lags == SelectSeq(<<1, 7, 14, 30>>, LAMBDA lag : n >= lag)
        windows == SelectSeq(<<7, 14, 30>>, LAMBDA window : n >= window)
        present ==
            <<"product_id", "sale_date">> \o TimeFeatures
                \o SelectSeq(LagFeatures,
                             LAMBDA name : \E k \in 1..Len(lags) :
                                 LagFeatures[k] = name)
                \o SelectSeq(RollingFeatures,
                             LAMBDA name : \E k \in 1..Len(windows) :
                                 name \in {RollingFeatures[2 * k - 1],
                                           RollingFeatures[2 * k]})
    IN  present \o SelectSeq(LagFeatures \o RollingFeatures,
                             LAMBDA name : ~Has(present, name))

\* Lines 279-282: the features handed to scaler.transform / model.predict.
PredictColumns(n) ==
    SelectSeq(RowKeys(n), LAMBDA name : name \notin {"sale_date", "product_id"})

(***************************************************************************)
(* calculate_reorder_point, lines 513-551: safety stock and reorder point  *)
(* from the forecast's average daily demand, the deviation of the          *)
(* location's daily sales and the service level.  Demands and deviations   *)
(* are in hundredths of a unit, a service level in percent, a z-score and  *)
(* the square root of the lead time in hundredths; the products are in     *)
(* millionths of a unit.                                                   *)
(***************************************************************************)
LeadTimeDays == 7
MinStdDays == 10
SqrtLeadTime == 265         \* np.sqrt(7) = 2.6458

\* The service levels asked for: probabilities strictly between 0 and 1.
ServiceLevels == {10, 50, 90, 95, 99}

ZScore_Survival(service_level) ==
    CASE service_level = 10 -> 128
      [] service_level = 50 -> 0
      [] service_level = 90 -> 0 - 128
      [] service_level = 95 -> 0 - 164
      [] service_level = 99 -> 0 - 233

\* norm.ppf(service_level): -1.2816, 0, 1.2816, 1.6449, 2.3263
ZScore(service_level) ==
    CASE service_level = 10 -> 0 - 128
      [] service_level = 50 -> 0
      [] service_level = 90 -> 128
      [] service_level = 95 -> 164
      [] service_level = 99 -> 233

\* demand_std: 30% of the average with fewer than 10 daily observations,
\* else their sample deviation.
DemandStd(observations, avg_daily_demand, sample_std) ==
    IF observations < MinStdDays THEN (3 * avg_daily_demand) \div 10
    ELSE sample_std

\* safety_stock, lead_time_demand and reorder_point of lines 547-551 and
\* what the result reports of them (round(x, 0)).
ReorderPoint(avg_daily_demand, demand_std, service_level) ==
    LET safety_stock == ZScore(service_level) * demand_std * SqrtLeadTime
        lead_time_demand == avg_daily_demand * LeadTimeDays * 10000
    IN  [reorder_point |-> RoundDiv(lead_time_demand + safety_stock, 1000000),
         safety_stock |-> RoundDiv(safety_stock, 1000000),
         service_level |-> service_level]

\* The demand statistics a call finds: the forecast's average, the number
\* of days with sales at the location in the last 90 days and their sample
\* deviation.
DemandStatistics ==
    [avg_daily_demand : {0, 150, 2000}, observations : {0, 9, 10, 60},
     sample_std : {0, 77, 600}]

(***************************************************************************)
(* AutoReorderSystem.generate_reorder_suggestions.                         *)
(***************************************************************************)
MaxPairs == 3       \* product/location pairs in the catalog

Locations == {1, 2}
StockValues == {0, 2, 3, 4, 9}
ReorderLevels == {4}

\* A product_locations row joined with its product.
PairRows ==
    [location_id : Locations, stock_quantity : StockValues,
     reorder_level : ReorderLevels]

\* _calculate_priority; reorder_level * 0.5 and * 0.75 compared in integers
CalculatePriority_NoCritical(current_stock, reorder_level) ==
    IF 2 * current_stock <= reorder_level THEN 80
    ELSE IF 4 * current_stock <= 3 * reorder_level THEN 60
    ELSE 40
CalculatePriority_Strict(current_stock, reorder_level) ==
    IF current_stock <= 0 THEN 100
    ELSE IF 2 * current_stock < reorder_level THEN 80
    ELSE IF 4 * current_stock < 3 * reorder_level THEN 60
    ELSE 40
CalculatePriority(current_stock, reorder_level) ==
    IF current_stock <= 0 THEN 100
    ELSE IF 2 * current_stock <= reorder_level THEN 80
    ELSE IF 4 * current_stock <= 3 * reorder_level THEN 60
    ELSE 40

\* The rows the query of lines 634-653 fetches, in scan order: stock at or
\* below the reorder level, at the location asked for if one is (0: none).
\* pair is the place of the row in the catalog.
RECURSIVE LowStockFrom(_, _, _)
LowStockFrom(cat, location_id, k) ==
    IF k > Len(cat) THEN <<>>
    ELSE LET e == cat[k]
             rest == LowStockFrom(cat, location_id, k + 1)
         IN  IF /\ e.stock_quantity <= e.reorder_level
                /\ (location_id = 0 \/ e.location_id = location_id)
             THEN <<[pair |-> k, location_id |-> e.location_id,
                     current_stock |-> e.stock_quantity,
                     reorder_level |-> e.reorder_level]>> \o rest
             ELSE rest

LowStock(cat, location_id) == LowStockFrom(cat, location_id, 1)

\* The suggestion dict of lines 669-680 for a fetched row.
Suggestion(row) ==
    [pair |-> row.pair, location_id |-> row.location_id,
     current_stock |-> row.current_stock, reorder_level |-> row.reorder_level,
     priority |-> CalculatePriority(row.current_stock, row.reorder_level)]

\* list.sort(key=priority, reverse=True) is stable: a suggestion goes behind
\* every earlier one of the same or a higher priority.
RECURSIVE InsertDesc_BeforeTies(_, _)
InsertDesc_BeforeTies(sorted, x) ==
    IF sorted = <<>> THEN <<x>>
    ELSE IF Head(sorted).priority > x.priority
    THEN <<Head(sorted)>> \o InsertDesc_BeforeTies(Tail(sorted), x)
    ELSE <<x>> \o sorted
RECURSIVE InsertDesc(_, _)
InsertDesc(sorted, x) ==
    IF sorted = <<>> THEN <<x>>
    ELSE IF Head(sorted).priority >= x.priority
    THEN <<Head(sorted)>> \o InsertDesc(Tail(sorted), x)
    ELSE <<x>> \o sorted

RECURSIVE SortFrom(_, _, _)
SortFrom(list, k, acc) ==
    IF k > Len(list) THEN acc
    ELSE SortFrom(list, k + 1, InsertDesc(acc, list[k]))

SortDesc(list) == SortFrom(list, 1, <<>>)

(***************************************************************************)
(* PriceOptimizer.  Money is in cents, the unit the results are rounded    *)
(* to; an elasticity is a whole number; a margin is in percent.            *)
(***************************************************************************)
MinObservations == 10   \* len(df) < 10
PriceBins == 5          \* pd.cut(df['price'], bins=5)
MinPricePoints == 3     \* len(price_demand) < 3
Samples == 100          \* np.linspace(cost * 1.1, current_price * 2, 100)
GridUnit == 990         \* a sample of the scan is a whole number of 1/990 cent
DefaultElasticity_Other == 0 - 2
DefaultElasticity == 0 - 1  \* elasticity = -1.0

ErrVariation == "Insufficient price variation data"
ErrPoints == "Insufficient price points for elasticity calculation"
ErrFit == "Input X contains infinity or a value too large"
ErrNoProduct == "Product not found"

\* Prices of the sale items of the last 180 days, oldest first.
NoSaleRows == <<>>
FewSales == <<10, 20, 30, 40, 50, 10, 20, 30, 40>>
OnePrice == <<50, 50, 50, 50, 50, 50, 50, 50, 50, 50, 50, 50>>
TwoPrices == <<10, 10, 10, 10, 10, 50, 50, 50, 50, 50>>
ThreePrices == <<10, 10, 10, 10, 30, 30, 30, 50, 50, 50>>
FivePrices == <<10, 20, 30, 40, 50, 10, 20, 30, 40, 50>>
FreeSamples == <<0, 0, 0, 0, 25, 25, 25, 50, 50, 50>>

PriceHistories ==
    {NoSaleRows, FewSales, OnePrice, TwoPrices, ThreePrices, FivePrices, FreeSamples}

\* The slope LinearRegression fits to the buckets; it depends on the
\* quantities sold, which are positive and otherwise left open.
ElasticityValues == {0 - 2, 0 - 1, 0}

\* products.price, products.cost (0: NULL or 0), the current_cost and
\* target_margin arguments, AVG(daily_quantity) of the last 30 days.
ListPrices == {0, 10, 20}
ListCosts == {0, 5, 30}
CostArguments == {0, 8}
TargetMargins == {30, 100}
DailySales == {NullAvg, 3}

\* No product row, no sales.
NoListing ==
    [exists |-> FALSE, price |-> 0, cost |-> 0, prices |-> <<>>, avg |-> NullAvg]

Listings ==
    {NoListing}
      \cup [exists : {TRUE}, price : ListPrices, cost : ListCosts,
            prices : PriceHistories, avg : DailySales]

MinPrice(prices) == CHOOSE x \in {prices[k] : k \in 1..Len(prices)} :
                       \A k \in 1..Len(prices) : x <= prices[k]
MaxPrice(prices) == CHOOSE x \in {prices[k] : k \in 1..Len(prices)} :
                       \A k \in 1..Len(prices) : x >= prices[k]

\* pd.cut(prices, bins=5): five intervals of equal width over [mn, mx],
\* closed on the right, the first one taking mn in; when every price is the
\* same the range is widened around it and the price is in the middle one.
PriceRange(x, mn, mx) ==
    IF mn = mx THEN (PriceBins + 1) \div 2
    ELSE IF x = mn THEN 1
    ELSE ((x - mn) * PriceBins + (mx - mn) - 1) \div (mx - mn)

\* The price ranges left after groupby(...).agg(...) and dropna(): those
\* that hold a sale.
PriceDemand(prices) ==
    {PriceRange(prices[k], MinPrice(prices), MaxPrice(prices)) : k \in 1..Len(prices)}

\* Is the mean price of range b positive, so that np.log of it is finite?
RECURSIVE RangeHasPrice(_, _, _)
RangeHasPrice(prices, b, k) ==
    IF k > Len(prices) THEN FALSE
    ELSE \/ /\ PriceRange(prices[k], MinPrice(prices), MaxPrice(prices)) = b
            /\ prices[k] > 0
         \/ RangeHasPrice(prices, b, k + 1)

\* get_price_elasticity on the fetched rows; slope is what the regression
\* finds.  model.fit raises on log(0) = -inf, and the handler of line 376
\* returns that error.
PriceElasticity(prices, slope) ==
    IF Len(prices) < MinObservations THEN Err("elasticity", ErrVariation)
    ELSE IF Cardinality(PriceDemand(prices)) < MinPricePoints
    THEN Err("elasticity", ErrPoints)
    ELSE IF \E b \in PriceDemand(prices) : ~RangeHasPrice(prices, b, 1)
    THEN Err("elasticity", ErrFit)
    ELSE [call |-> "elasticity", ok |-> TRUE,
          price_elasticity |-> slope,
          data_points |-> Cardinality(PriceDemand(prices))]

\* cost = float(product.cost or current_cost)
EffectiveCost(l, current_cost) == IF l.cost # 0 THEN l.cost ELSE current_cost

\* Sample i (from 0) of np.linspace(cost * 1.1, current_price * 2, 100), in
\* 1/990 cent: 990 * (1.1 c + i (2 p - 1.1 c) / 99).
Sample(i, cost, price) == 1089 * cost + i * (20 * price - 11 * cost)

\* a / b < c / d for a, c >= 0 and b, d > 0, by the quotients and then the
\* remainders, so that no product is formed
RECURSIVE FracLess(_, _, _, _)
FracLess(a, b, c, d) ==
    IF a \div b # c \div d THEN a \div b < c \div d
    ELSE IF c % d = 0 THEN FALSE
    ELSE IF a % b = 0 THEN TRUE
    ELSE FracLess(d, c % d, b, a % b)

RECURSIVE Power(_, _)
Power(x, n) == IF n = 0 THEN 1 ELSE x * Power(x, n - 1)

\* profit_function(price) for an elasticity <= 0, as a fraction n / d.  The
\* factor current_price ^ -elasticity, the same positive number for every
\* sample, is left out.
Profit(x, cost, elasticity, base_demand) ==
    IF x <= GridUnit * cost THEN [n |-> 0, d |-> 1]
    ELSE [n |-> (x - GridUnit * cost) * base_demand,
          d |-> Power(x, 0 - elasticity)]

\* np.argmax(profits): the first sample of the largest profit
RECURSIVE ArgMaxFrom(_, _, _, _, _, _)
ArgMaxFrom(i, best, cost, price, elasticity, base_demand) ==
    IF i >= Samples THEN best
    ELSE LET a == Profit(Sample(best, cost, price), cost, elasticity, base_demand)
             b == Profit(Sample(i, cost, price), cost, elasticity, base_demand)
         IN  IF FracLess(a.n, a.d, b.n, b.d)
             THEN ArgMaxFrom(i + 1, i, cost, price, elasticity, base_demand)
             ELSE ArgMaxFrom(i + 1, best, cost, price, elasticity, base_demand)

\* optimal_price, in 1/990 cent
OptimalSample(cost, price, elasticity, base_demand) ==
    Sample(ArgMaxFrom(1, 0, cost, price, elasticity, base_demand), cost, price)

\* Lines 410-414: the elasticity the scan works with.
ElasticityUsed(estimate) ==
    IF ~estimate.ok THEN DefaultElasticity ELSE estimate.price_elasticity

\* base_demand = float(avg_sales[0] or 1)
BaseDemand(avg) == IF avg = NullAvg \/ avg = 0 THEN 1 ELSE avg

\* optimize_price from line 404 on, for a product that exists.  A current
\* price of 0 divides by zero in current_margin, a target margin of 100% in
\* target_price; the handler of line 478 returns the error.
OptimizePrice(l, current_cost, target_margin, estimate) ==
    LET cost == EffectiveCost(l, current_cost)
        elasticity == ElasticityUsed(estimate)
    IN  IF l.price = 0 \/ target_margin = 100 THEN Err("optimize", ErrZeroDiv)
        ELSE [call |-> "optimize", ok |-> TRUE,
              current_price |-> l.price,
              optimal_price |->
                  RoundDiv(OptimalSample(cost, l.price, elasticity, BaseDemand(l.avg)),
                           GridUnit),
              target_margin_price |-> RoundDiv(cost * 100, 100 - target_margin),
              price_elasticity |-> elasticity]

\* The AutoReorderSystem call that has not begun.
NoScan ==
    [pc |-> "idle", location |-> 0, rows |-> <<>>, i |-> 0,
     suggestions |-> <<>>, failed |-> {}, queryFailed |-> FALSE,
     output |-> <<>>]

NoEstimate == [call |-> "none", ok |-> FALSE, error |-> ""]

\* The PriceOptimizer call that has not begun.
NoPricing ==
    [op |-> "idle", pc |-> "idle", current_cost |-> 0, target_margin |-> 0,
     estimate |-> NoEstimate, result |-> NoEstimate]

(***************************************************************************)
(* State.                                                                  *)
(*   history     the sales history of each product (read-only input)       *)
(*   modelFile   models/demand_model_<id>.joblib: NoModel, or the model of *)
(*               a training run [run, kind]                                *)
(*   scalerFile  models/scaler_<id>.joblib: 0, or the run of the scaler    *)
(*   nextRun     identity of the next fitted model/scaler pair             *)
(*   started     requests started so far                                   *)
(*   wk          per worker: the request it serves, its position in the    *)
(*               code, its DemandForecaster (models, scalers) and locals   *)
(*   out         the request that returned last, as it stood on return     *)
(*               (its forecaster and its result), until a request begins   *)
(*   catalog     the product_locations rows joined with their products, *)
(*               in the order the database scans them (read-only input)    *)
(*   ars         the generate_reorder_suggestions call in progress or over *)
(*   listing     the product a PriceOptimizer call is about and its sales  *)
(*               (read-only input)                                         *)
(*   po          the PriceOptimizer call in progress or over               *)
(*   users       the users table, in the order a query scans it            *)
(*   stock       stock_quantity of each product_locations row of one       *)
(*               product                                                   *)
(*   opening     the stock_quantity each row was created with              *)
(*   ledger      the inventory_transactions rows, oldest first             *)
(*   alerts      the reorder_alerts rows, oldest first                     *)
(*   checks      check_reorder_levels background tasks added, not yet run  *)
(*   bulkTasks   train_all_models background tasks added                   *)
(*   resp        the last response of the inventory API                    *)
(*   fn          the last call of a function of the analytics module that  *)
(*               reads no state: its arguments and what it returned        *)
(***************************************************************************)
VARIABLES history, modelFile, scalerFile, nextRun, started, wk, out,
          catalog, ars, listing, po,
          users, opening, stock, ledger, alerts, checks, bulkTasks, resp, fn

vars == <<history, modelFile, scalerFile, nextRun, started, wk, out,
          catalog, ars, listing, po,
          users, opening, stock, ledger, alerts, checks, bulkTasks, resp, fn>>

\* The variables of the forecasting requests, of the suggestion scan, of
\* the price optimizer and of the inventory API.
forecastVars == <<history, modelFile, scalerFile, nextRun, started, wk, out>>
suggestVars == <<catalog, ars>>
priceVars == <<listing, po>>
storeVars == <<users, opening, stock, ledger, alerts, checks, bulkTasks, resp>>

NoModel == [run |-> 0, kind |-> "none"]
NoScores == [k \in Kinds |-> 0]
NoFit == [run |-> 0, kind |-> "none", mae |-> 0, scores |-> NoScores]
NoResult == [call |-> "none", ok |-> FALSE, error |-> ""]

\* DemandForecaster.__init__: self.models = {}, self.scalers = {}
FreshWorker ==
    [op |-> "idle", pc |-> "idle", product |-> 0, days |-> 0,
     models |-> [p \in Products |-> NoModel],
     scalers |-> [p \in Products |-> 0],
     fitted |-> NoFit,
     trained |-> 0,
     path |-> "none",
     avg |-> NullAvg,
     queryFailed |-> FALSE,
     todo |-> <<>>,
     results |-> <<>>,
     forecast |-> NoResult,
     result |-> NoResult]

\* No response of the inventory API yet, and no function called yet.
NoResponse == [op |-> "none", status |-> 0]
NoCall == [op |-> "none"]

\* The inventory tables empty and no request to the inventory API made.
NoStore ==
    /\ users = <<>>
    /\ opening = [l \in Locations |-> 0]
    /\ stock = [l \in Locations |-> 0]
    /\ ledger = <<>>
    /\ alerts = <<>>
    /\ checks = 0
    /\ bulkTasks = 0
    /\ resp = NoResponse

\* An empty models/ directory and no request made.
NoRequests ==
    /\ modelFile = [p \in Products |-> NoModel]
    /\ scalerFile = [p \in Products |-> 0]
    /\ nextRun = 1
    /\ started = 0
    /\ wk = [w \in Workers |-> FreshWorker]
    /\ out = FreshWorker

Init ==
    /\ history \in [Products -> Histories]
    /\ NoRequests
    /\ catalog = <<>>
    /\ ars = NoScan
    /\ listing = NoListing
    /\ po = NoPricing
    /\ NoStore
    /\ fn = NoCall

\* Worker w goes on as r; a request that is over leaves its record in out
\* and its forecaster is dropped with it.
Continue(w, r) ==
    IF r.pc = "idle"
    THEN /\ wk' = [wk EXCEPT ![w] = FreshWorker]
         /\ out' = r
    ELSE /\ wk' = [wk EXCEPT ![w] = r]
         /\ UNCHANGED out

\* The request is over: the handler returns res (op still names the request).
Finish(r, res) ==
    [r EXCEPT !.pc = "idle", !.result = res, !.fitted = NoFit]

\* predict_demand returns res to its caller: the demand-forecast endpoint, or
\* calculate_reorder_point, which goes on with it.
PredictReturns(r, res) ==
    IF r.op = "reorder"
    THEN [r EXCEPT !.pc = "calc", !.forecast = res, !.fitted = NoFit]
    ELSE Finish(r, res)

\* if "error" in train_result: return train_result
ImplicitTrainReturns_Ignored(r, res) ==
    [r EXCEPT !.pc = "forecast", !.fitted = NoFit]
ImplicitTrainReturns(r, res) ==
    IF ~res.ok THEN PredictReturns(r, res)
    ELSE [r EXCEPT !.pc = "forecast", !.fitted = NoFit]

\* train_demand_model returns res to its caller: the background task of the
\* train endpoint, the loop of bulk training, or predict_demand.
TrainReturns(r, res) ==
    CASE r.op = "train" -> Finish(r, res)
      [] r.op = "bulk" ->
            LET rs == Append(r.results, [product_id |-> r.product, result |-> res])
            IN  IF Len(r.todo) = 0
                THEN [Finish(r, [call |-> "bulk", ok |-> TRUE, results |-> rs])
                        EXCEPT !.results = rs]
                ELSE [r EXCEPT !.results = rs, !.product = Head(r.todo),
                               !.todo = Tail(r.todo), !.pc = "train",
                               !.fitted = NoFit]
      [] OTHER -> ImplicitTrainReturns(r, res)

(***************************************************************************)
(* Requests.                                                               *)
(***************************************************************************)
CanBegin(w) == wk[w].op = "idle" /\ started < MaxRequests

\* POST /analytics/train-demand-model/{product_id}: the background task
StartTrain(w) ==
    /\ CanBegin(w)
    /\ \E p \in Products :
          wk' = [wk EXCEPT ![w] =
                    [FreshWorker EXCEPT !.op = "train", !.pc = "train", !.product = p]]
    /\ started' = started + 1
    /\ out' = FreshWorker
    /\ UNCHANGED <<history, modelFile, scalerFile, nextRun, suggestVars, priceVars, storeVars, fn>>

\* POST /analytics/bulk-train-models: the background task
StartBulk(w) ==
    /\ CanBegin(w)
    /\ wk' = [wk EXCEPT ![w] =
                [FreshWorker EXCEPT !.op = "bulk", !.pc = "train",
                                    !.product = Head(ProductList),
                                    !.todo = Tail(ProductList)]]
    /\ started' = started + 1
    /\ out' = FreshWorker
    /\ UNCHANGED <<history, modelFile, scalerFile, nextRun, suggestVars, priceVars, storeVars, fn>>

\* GET /analytics/demand-forecast/{product_id}?days_ahead=
StartForecast(w) ==
    /\ CanBegin(w)
    /\ \E p \in Products, d \in 0..MaxDays :
          wk' = [wk EXCEPT ![w] =
                    [FreshWorker EXCEPT !.op = "predict", !.pc = "predict",
                                        !.product = p, !.days = d]]
    /\ started' = started + 1
    /\ out' = FreshWorker
    /\ UNCHANGED <<history, modelFile, scalerFile, nextRun, suggestVars, priceVars, storeVars, fn>>

\* GET /analytics/reorder-calculation/{product_id}/{location_id}
StartReorder(w) ==
    /\ CanBegin(w)
    /\ \E p \in Products :
          wk' = [wk EXCEPT ![w] =
                    [FreshWorker EXCEPT !.op = "reorder", !.pc = "predict",
                                        !.product = p, !.days = ReorderHorizon]]
    /\ started' = started + 1
    /\ out' = FreshWorker
    /\ UNCHANGED <<history, modelFile, scalerFile, nextRun, suggestVars, priceVars, storeVars, fn>>

(***************************************************************************)
(* DemandForecaster.train_demand_model.                                    *)
(***************************************************************************)

\* Lines 101-181: read the history, check it, fit the three candidates and
\* keep the winner.  The held-out errors are inputs.
TrainFit(w) ==
    LET r == wk[w]
        h == history[r.product]
    IN  /\ r.pc = "train"
        /\ IF TrainCheck(h) # "ok"
           THEN /\ Continue(w, TrainReturns(r, Err("train", TrainCheck(h))))
                /\ UNCHANGED nextRun
           ELSE /\ nextRun <= MaxRuns
                /\ \E maes \in [Kinds -> 0..MaxMae] :
                      LET best == SelectBest(maes)
                      IN  Continue(w, [r EXCEPT !.pc = "dump_model",
                                              !.fitted = [run |-> nextRun,
                                                          kind |-> best.name,
                                                          mae |-> best.score,
                                                          scores |-> maes]])
                /\ nextRun' = nextRun + 1
        /\ UNCHANGED <<history, modelFile, scalerFile, started, suggestVars, priceVars, storeVars, fn>>

\* What joblib.dump(best_model, ...) writes: the winner of this run.
Artifact_FirstCandidate(fitted) == [run |-> fitted.run, kind |-> CandidateOrder[1]]
Artifact(fitted) == [run |-> fitted.run, kind |-> fitted.kind]

\* joblib.dump(best_model, model_filename); it may raise
DumpModel(w) ==
    LET r == wk[w]
    IN  /\ r.pc = "dump_model"
        /\ \/ /\ modelFile' = [modelFile EXCEPT ![r.product] = Artifact(r.fitted)]
              /\ Continue(w, [r EXCEPT !.pc = "dump_scaler"])
           \/ /\ Continue(w, TrainReturns(r, Err("train", ErrPersist)))
              /\ UNCHANGED modelFile
        /\ UNCHANGED <<history, scalerFile, nextRun, started, suggestVars, priceVars, storeVars, fn>>

\* The forecaster after lines 190-191.
Cached(r) ==
    [r EXCEPT !.models[r.product] = Artifact(r.fitted),
              !.scalers[r.product] = r.fitted.run,
              !.trained = r.fitted.run]

TrainOk(r) ==
    [call |-> "train", ok |-> TRUE, model_type |-> r.fitted.kind,
     mae |-> r.fitted.mae, run |-> r.fitted.run, scores |-> r.fitted.scores]

\* joblib.dump(scaler, scaler_filename), which may raise; then the caches
\* are set and the result is returned
DumpScaler(w) ==
    LET r == wk[w]
    IN  /\ r.pc = "dump_scaler"
        /\ \/ /\ scalerFile' = [scalerFile EXCEPT ![r.product] = r.fitted.run]
              /\ Continue(w, TrainReturns(Cached(r), TrainOk(r)))
           \/ /\ Continue(w, TrainReturns(r, Err("train", ErrPersist)))
              /\ UNCHANGED scalerFile
        /\ UNCHANGED <<history, modelFile, nextRun, started, suggestVars, priceVars, storeVars, fn>>

(***************************************************************************)
(* DemandForecaster.predict_demand.                                        *)
(***************************************************************************)

\* Lines 209-218: is the model in the forecaster, else is its file there;
\* a missing file starts train_demand_model inside this call.
PredictCheck(w) ==
    LET r == wk[w]
        p == r.product
    IN  /\ r.pc = "predict"
        /\ Continue(w, IF r.models[p] # NoModel
                    THEN [r EXCEPT !.pc = "forecast", !.path = "cached"]
                    ELSE IF modelFile[p] = NoModel
                    THEN [r EXCEPT !.pc = "train", !.path = "train"]
                    ELSE [r EXCEPT !.pc = "load_model", !.path = "load"])
        /\ UNCHANGED <<history, modelFile, scalerFile, nextRun, started, suggestVars, priceVars, storeVars, fn>>

\* self.models[product_id] = joblib.load(model_filename)
LoadModel(w) ==
    LET r == wk[w]
        p == r.product
    IN  /\ r.pc = "load_model"
        /\ Continue(w, [r EXCEPT !.models[p] = modelFile[p], !.pc = "load_scaler"])
        /\ UNCHANGED <<history, modelFile, scalerFile, nextRun, started, suggestVars, priceVars, storeVars, fn>>

\* self.scalers[product_id] = joblib.load(scaler_filename); a missing file
\* raises, and the handler of line 312 returns the error
LoadScaler(w) ==
    LET r == wk[w]
        p == r.product
    IN  /\ r.pc = "load_scaler"
        /\ Continue(w, IF scalerFile[p] = 0
                    THEN PredictReturns(r, Err("predict", ErrNoScaler))
                    ELSE [r EXCEPT !.scalers[p] = scalerFile[p], !.pc = "forecast"])
        /\ UNCHANGED <<history, modelFile, scalerFile, nextRun, started, suggestVars, priceVars, storeVars, fn>>

\* What the estimator answers for the days of the horizon.  The reorder
\* calculation asks for 30 days; its answers are taken equal on all days.
RawInputs(r) ==
    IF r.op = "reorder"
    THEN {[k \in 1..r.days |-> v] : v \in RawPredictions}
    ELSE [1..r.days -> RawPredictions]

\* Lines 222-314.  scaler.transform / model.predict either raise on the
\* feature vector (on the first day) or answer every day.
Forecast(w) ==
    LET r == wk[w]
        p == r.product
        h == history[p]
    IN  /\ r.pc = "forecast"
        /\ IF h.recent = <<>>
           THEN Continue(w, PredictReturns(r, Err("predict", ErrRecent)))
           ELSE \E raws \in RawInputs(r), accepted \in BOOLEAN :
                   Continue(w, IF r.days > 0 /\ ~accepted
                            THEN PredictReturns(r, Err("predict", ErrEstimator))
                            ELSE PredictReturns(r,
                                    ForecastResult(Walk(h.recent, raws,
                                                        r.models[p], r.scalers[p]))))
        /\ UNCHANGED <<history, modelFile, scalerFile, nextRun, started, suggestVars, priceVars, storeVars, fn>>

(***************************************************************************)
(* AutoReorderSystem.calculate_reorder_point, after predict_demand.        *)
(***************************************************************************)

\* if "error" in demand_forecast: return self._simple_reorder_calculation(...)
\* Either calculation queries the database, which may raise; each has its
\* own handler that returns {"error": ...}.
ReorderOutcome_ErrorOnFailure(r, avg, raises) ==
    IF raises \/ ~r.forecast.ok THEN Err("reorder", ErrQuery)
    ELSE StatisticalResult(r.forecast)
ReorderOutcome(r, avg, raises) ==
    IF raises THEN Err("reorder", ErrQuery)
    ELSE IF ~r.forecast.ok THEN SimpleResult(avg)
    ELSE StatisticalResult(r.forecast)

Calc(w) ==
    LET r == wk[w]
    IN  /\ r.pc = "calc"
        /\ \E avg \in TrailingAverages(history[r.product]), raises \in BOOLEAN :
              Continue(w, Finish([r EXCEPT !.avg = avg, !.queryFailed = raises],
                              ReorderOutcome(r, avg, raises)))
        /\ UNCHANGED <<history, modelFile, scalerFile, nextRun, started, suggestVars, priceVars, storeVars, fn>>

Serve(w) ==
    \/ StartTrain(w)
    \/ StartBulk(w)
    \/ StartForecast(w)
    \/ StartReorder(w)
    \/ TrainFit(w)
    \/ DumpModel(w)
    \/ DumpScaler(w)
    \/ PredictCheck(w)
    \/ LoadModel(w)
    \/ LoadScaler(w)
    \/ Forecast(w)
    \/ Calc(w)

\* Requests served one after the other.
Next == Serve("w1")

Spec == Init /\ [][Next]_vars

\* Overlapping requests of the forecasting endpoints: the train and bulk-train
\* background tasks and the demand forecast, on a trainable product 1.
InitConc ==
    /\ Init
    /\ history = [p \in Products |-> IF p = 1 THEN Rich60 ELSE NoSales]

NextConc ==
    \E w \in Workers :
        \/ StartTrain(w)
        \/ StartBulk(w)
        \/ StartForecast(w)
        \/ TrainFit(w)
        \/ DumpModel(w)
        \/ DumpScaler(w)
        \/ PredictCheck(w)
        \/ LoadModel(w)
        \/ LoadScaler(w)
        \/ Forecast(w)

SpecConc == InitConc /\ [][NextConc]_vars

(***************************************************************************)
(* AutoReorderSystem.generate_reorder_suggestions, the reorder calculation *)
(* of each pair taken by its outcome: a result, or {"error": ...}.         *)
(***************************************************************************)

\* GET /analytics/reorder-suggestions?location_id=
StartSuggest ==
    /\ ars.pc \in {"idle", "done"}
    /\ \E location_id \in {0} \cup Locations :
          ars' = [NoScan EXCEPT !.pc = "query", !.location = location_id]
    /\ UNCHANGED <<catalog, forecastVars, priceVars, storeVars, fn>>

\* Lines 634-653: the query; if it raises, the handler of line 684 returns [].
SuggestQuery ==
    /\ ars.pc = "query"
    /\ \/ ars' = [ars EXCEPT !.rows = LowStock(catalog, ars.location),
                             !.i = 1, !.pc = "scan"]
       \/ ars' = [ars EXCEPT !.queryFailed = TRUE, !.output = <<>>, !.pc = "done"]
    /\ UNCHANGED <<catalog, forecastVars, priceVars, storeVars, fn>>

\* if "error" not in reorder_calc: ... else the loop goes on to the next row
AfterFailure_Abort(a) ==
    [a EXCEPT !.failed = a.failed \cup {a.rows[a.i].pair},
              !.output = <<>>, !.pc = "done"]
AfterFailure(a) ==
    [a EXCEPT !.failed = a.failed \cup {a.rows[a.i].pair}, !.i = a.i + 1]

\* Lines 657-681: one turn of the loop.
SuggestPair ==
    /\ ars.pc = "scan"
    /\ ars.i <= Len(ars.rows)
    /\ \E calcFails \in BOOLEAN :
          ars' = IF calcFails THEN AfterFailure(ars)
                 ELSE [ars EXCEPT !.suggestions =
                                     Append(ars.suggestions, Suggestion(ars.rows[ars.i])),
                                  !.i = ars.i + 1]
    /\ UNCHANGED <<catalog, forecastVars, priceVars, storeVars, fn>>

\* Lines 683-686: sort and return.
SuggestSort ==
    /\ ars.pc = "scan"
    /\ ars.i > Len(ars.rows)
    /\ ars' = [ars EXCEPT !.output = SortDesc(ars.suggestions), !.pc = "done"]
    /\ UNCHANGED <<catalog, forecastVars, priceVars, storeVars, fn>>

InitSuggest ==
    /\ history = [p \in Products |-> NoSales]
    /\ NoRequests
    /\ catalog \in [1..MaxPairs -> PairRows]
    /\ ars = NoScan
    /\ listing = NoListing
    /\ po = NoPricing
    /\ NoStore
    /\ fn = NoCall

NextSuggest ==
    \/ StartSuggest
    \/ SuggestQuery
    \/ SuggestPair
    \/ SuggestSort

SpecSuggest == InitSuggest /\ [][NextSuggest]_vars

(***************************************************************************)
(* PriceOptimizer.get_price_elasticity and optimize_price.                 *)
(***************************************************************************)

\* GET /analytics/price-elasticity/{product_id}
StartElasticity ==
    /\ po.pc \in {"idle", "done"}
    /\ po' = [NoPricing EXCEPT !.op = "elasticity", !.pc = "estimate"]
    /\ UNCHANGED <<listing, forecastVars, suggestVars, storeVars, fn>>

\* optimize_price(product_id, current_cost, target_margin)
StartOptimize ==
    /\ po.pc \in {"idle", "done"}
    /\ \E current_cost \in CostArguments, target_margin \in TargetMargins :
          po' = [NoPricing EXCEPT !.op = "optimize", !.pc = "lookup",
                                  !.current_cost = current_cost,
                                  !.target_margin = target_margin]
    /\ UNCHANGED <<listing, forecastVars, suggestVars, storeVars, fn>>

\* Lines 395-402: the product row.
LookupProduct ==
    /\ po.pc = "lookup"
    /\ po' = IF ~listing.exists
             THEN [po EXCEPT !.pc = "done", !.result = Err("optimize", ErrNoProduct)]
             ELSE [po EXCEPT !.pc = "estimate"]
    /\ UNCHANGED <<listing, forecastVars, suggestVars, storeVars, fn>>

\* get_price_elasticity, called by its endpoint or by optimize_price.
EstimateElasticity ==
    /\ po.pc = "estimate"
    /\ \E slope \in ElasticityValues :
          LET estimate == PriceElasticity(listing.prices, slope)
          IN  po' = IF po.op = "elasticity"
                    THEN [po EXCEPT !.pc = "done", !.estimate = estimate,
                                    !.result = estimate]
                    ELSE [po EXCEPT !.pc = "scan", !.estimate = estimate]
    /\ UNCHANGED <<listing, forecastVars, suggestVars, storeVars, fn>>

\* Lines 416-480: the scan of the price points and the result.
ScanPrices ==
    /\ po.pc = "scan"
    /\ po' = [po EXCEPT !.pc = "done",
                        !.result = OptimizePrice(listing, po.current_cost,
                                                 po.target_margin, po.estimate)]
    /\ UNCHANGED <<listing, forecastVars, suggestVars, storeVars, fn>>

InitPrice ==
    /\ history = [p \in Products |-> NoSales]
    /\ NoRequests
    /\ catalog = <<>>
    /\ ars = NoScan
    /\ listing \in Listings
    /\ po = NoPricing
    /\ NoStore
    /\ fn = NoCall

NextPrice ==
    \/ StartElasticity
    \/ StartOptimize
    \/ LookupProduct
    \/ EstimateElasticity
    \/ ScanPrices

SpecPrice == InitPrice /\ [][NextPrice]_vars

(***************************************************************************)
(* The inventory API of enhanced_main.py: who a request is served as, the  *)
(* admin-only bulk training endpoint, update_stock and the reorder check   *)
(* it schedules.  The handlers are coroutines that never await, served by  *)
(* the one event loop of the one server process: each runs in one step.    *)
(***************************************************************************)
MaxUsers == 2           \* rows of the users table
MaxBulkTasks == 2       \* bulk trainings scheduled
MaxUpdates == 3         \* update_stock calls that record a transaction

Roles == {"admin", "manager", "cashier"}
UserRows == [role : Roles, is_active : BOOLEAN]
UserTables == UNION {[1..n -> UserRows] : n \in 0..MaxUsers}

\* get_current_user, get_current_active_user and require_role(roles): the
\* user is db.query(User).first(), whatever token the request carries.  No
\* user at all fails on current_user.is_active (500), an inactive one is
\* answered 400, a role not in roles 403; 200 stands for the handler being
\* run.
AccessStatus(table, roles) ==
    IF table = <<>> THEN 500
    ELSE IF ~table[1].is_active THEN 400
    ELSE IF table[1].role \notin roles THEN 403
    ELSE 200

\* POST /analytics/bulk-train-models sent by the user of row sender.
BulkTrainRequest(sender) ==
    /\ bulkTasks < MaxBulkTasks
    /\ LET status == AccessStatus(users, {"admin"})
       IN  /\ resp' = [op |-> "bulk_train_models", sender |-> users[sender],
                       status |-> status, scheduled |-> status = 200]
           /\ bulkTasks' = IF status = 200 THEN bulkTasks + 1 ELSE bulkTasks
    /\ UNCHANGED <<users, opening, stock, ledger, alerts, checks, fn,
                   forecastVars, suggestVars, priceVars>>

InitAccess ==
    /\ history = [p \in Products |-> NoSales]
    /\ NoRequests
    /\ catalog = <<>>
    /\ ars = NoScan
    /\ listing = NoListing
    /\ po = NoPricing
    /\ users \in UserTables
    /\ opening = [l \in Locations |-> 0]
    /\ stock = opening
    /\ ledger = <<>>
    /\ alerts = <<>>
    /\ checks = 0
    /\ bulkTasks = 0
    /\ resp = NoResponse
    /\ fn = NoCall

NextAccess == \E sender \in 1..Len(users) : BulkTrainRequest(sender)

SpecAccess == InitAccess /\ [][NextAccess]_vars

(***************************************************************************)
(* update_stock, check_reorder_levels and acknowledge_reorder_alert, on    *)
(* the product_locations rows of one product, one for each location.       *)
(***************************************************************************)
OpeningStocks == {0, 5}
QuantityChanges == {0 - 3, 0 - 1, 2}

\* Product.reorder_level of the product.
ProductReorderLevel == CHOOSE level \in ReorderLevels : TRUE

\* new_stock = product_location.stock_quantity + quantity_change
NewStock_Absolute(stock_quantity, quantity_change) == quantity_change
NewStock(stock_quantity, quantity_change) == stock_quantity + quantity_change

\* if new_stock < 0: raise HTTPException(status_code=400, ...)
Rejects_Never(new_stock) == FALSE
Rejects(new_stock) == new_stock < 0

StockResponse(status, location_id, quantity_change, new_stock) ==
    [op |-> "update_stock", status |-> status, location_id |-> location_id,
     quantity_change |-> quantity_change, new_stock_quantity |-> new_stock]

\* PUT /product-locations/{product_id}/{location_id}/stock.  location_id 0
\* has no product_locations row.  The commit may raise, which leaves the
\* database as it was.
UpdateStock(location_id, quantity_change) ==
    /\ Len(ledger) < MaxUpdates
    /\ LET access == AccessStatus(users, Roles)
           refused(status) ==
               /\ resp' = StockResponse(status, location_id, quantity_change, 0)
               /\ UNCHANGED <<stock, ledger, checks>>
       IN  IF access # 200 THEN refused(access)
           ELSE IF location_id \notin Locations THEN refused(404)
           ELSE LET new_stock == NewStock(stock[location_id], quantity_change)
                IN  IF Rejects(new_stock) THEN refused(400)
                    ELSE \/ /\ stock' = [stock EXCEPT ![location_id] = new_stock]
                            /\ ledger' = Append(ledger,
                                  [location_id |-> location_id,
                                   transaction_type |->
                                       IF quantity_change > 0 THEN "receipt"
                                       ELSE "adjustment",
                                   quantity_change |-> quantity_change])
                            /\ checks' = checks + 1
                            /\ resp' = StockResponse(200, location_id,
                                                     quantity_change, new_stock)
                         \/ refused(500)
    /\ UNCHANGED <<users, opening, alerts, bulkTasks, fn,
                   forecastVars, suggestVars, priceVars>>

\* Lines 436-440: is there a pending alert for the pair already
HasPending_Never(rows, location_id) == FALSE
HasPending(rows, location_id) ==
    \E k \in 1..Len(rows) :
        rows[k].location_id = location_id /\ rows[k].status = "pending"

\* Lines 430-455: an alert for every row at or below the reorder level that
\* has no pending one, in scan order.
RECURSIVE NewAlerts(_, _, _)
NewAlerts(rows, quantities, location_id) ==
    IF location_id \notin Locations THEN <<>>
    ELSE (IF /\ quantities[location_id] <= ProductReorderLevel
             /\ ~HasPending(rows, location_id)
          THEN <<[location_id |-> location_id, status |-> "pending"]>>
          ELSE <<>>)
         \o NewAlerts(rows, quantities, location_id + 1)

\* A check_reorder_levels background task runs: it commits its alerts, or
\* an exception makes it roll back.
CheckReorderLevels ==
    /\ checks > 0
    /\ checks' = checks - 1
    /\ \/ alerts' = alerts \o NewAlerts(alerts, stock, 1)
       \/ UNCHANGED alerts
    /\ UNCHANGED <<users, opening, stock, ledger, bulkTasks, resp, fn,
                   forecastVars, suggestVars, priceVars>>

\* PUT /reorder-alerts/{alert_id}/acknowledge on a pending alert.
AcknowledgeAlert(alert_id) ==
    /\ AccessStatus(users, {"admin", "manager"}) = 200
    /\ alerts[alert_id].status = "pending"
    /\ alerts' = [alerts EXCEPT ![alert_id].status = "acknowledged"]
    /\ UNCHANGED <<users, opening, stock, ledger, checks, bulkTasks, resp, fn,
                   forecastVars, suggestVars, priceVars>>

InitStock ==
    /\ history = [p \in Products |-> NoSales]
    /\ NoRequests
    /\ catalog = <<>>
    /\ ars = NoScan
    /\ listing = NoListing
    /\ po = NoPricing
    /\ users \in {t \in UserTables : Len(t) <= 1}
    /\ opening \in [Locations -> OpeningStocks]
    /\ stock = opening
    /\ ledger = <<>>
    /\ alerts = <<>>
    /\ checks = 0
    /\ bulkTasks = 0
    /\ resp = NoResponse
    /\ fn = NoCall

NextStock ==
    \/ \E location_id \in Locations \cup {0}, quantity_change \in QuantityChanges :
           UpdateStock(location_id, quantity_change)
    \/ CheckReorderLevels
    \/ \E alert_id \in 1..Len(alerts) : AcknowledgeAlert(alert_id)

SpecStock == InitStock /\ [][NextStock]_vars

(***************************************************************************)
(* Calls of the functions of the analytics module that compute from their  *)
(* arguments and the rows they are given alone.  fn holds the arguments,   *)
(* and the result once the call has returned.                              *)
(***************************************************************************)
Pending(op, args) == [op : {op}, args : args, done : {FALSE}, result : {NoCall}]

Returns(result) == fn' = [fn EXCEPT !.done = TRUE, !.result = result]

ReorderPointInputs ==
    [stats : DemandStatistics, service_level : ServiceLevels]

\* calculate_reorder_point with a forecast that succeeded.
ReorderPointCall ==
    /\ fn.op = "calculate_reorder_point" /\ ~fn.done
    /\ LET st == fn.args.stats
       IN  Returns(ReorderPoint(st.avg_daily_demand,
                                DemandStd(st.observations, st.avg_daily_demand,
                                          st.sample_std),
                                fn.args.service_level))
    /\ UNCHANGED <<forecastVars, suggestVars, priceVars, storeVars>>

\* _calculate_priority on any stock, a negative one included, and any
\* reorder level.
PriorityInputs == [current_stock : (0 - 1)..9, reorder_level : 0..8]

PriorityCall ==
    /\ fn.op = "_calculate_priority" /\ ~fn.done
    /\ Returns(CalculatePriority(fn.args.current_stock, fn.args.reorder_level))
    /\ UNCHANGED <<forecastVars, suggestVars, priceVars, storeVars>>

\* A forecast for a product whose estimator train_demand_model fitted,
\* with 1 to 30 recent quantities (no recent sale at all is an error before
\* any row is built): the columns fitted on and those of the row handed over.
FeatureInputs == [recent : 1..RecentTail]

FeatureVectorCall ==
    /\ fn.op = "predict_demand.feature_row" /\ ~fn.done
    /\ Returns([fitted |-> TrainColumns, given |-> PredictColumns(fn.args.recent)])
    /\ UNCHANGED <<forecastVars, suggestVars, priceVars, storeVars>>

\* train_demand_model up to the daily frame, on 29 or 30 raw rows sold at
\* one instant or more, 30 or 45 units at each.
SeriesInputs ==
    {a \in [rows : {MinRawRows - 1, MinRawRows}, sold : [Instants -> {0, 30, 45}]] :
        Groups(a.sold) # {}}

DailySeriesCall ==
    /\ fn.op = "train_demand_model.daily_sales" /\ ~fn.done
    /\ Returns(IF fn.args.rows < MinRawRows THEN Err("train", ErrRaw)
               ELSE [call |-> "train", ok |-> TRUE,
                     daily_sales |-> DailySeries(fn.args.sold)])
    /\ UNCHANGED <<forecastVars, suggestVars, priceVars, storeVars>>

FnCalls ==
    Pending("calculate_reorder_point", ReorderPointInputs)
        \cup Pending("train_demand_model.daily_sales", SeriesInputs)
        \cup Pending("predict_demand.feature_row", FeatureInputs)
        \cup Pending("_calculate_priority", PriorityInputs)

InitFn ==
    /\ history = [p \in Products |-> NoSales]
    /\ NoRequests
    /\ catalog = <<>>
    /\ ars = NoScan
    /\ listing = NoListing
    /\ po = NoPricing
    /\ NoStore
    /\ fn \in FnCalls

NextFn ==
    \/ ReorderPointCall
    \/ PriorityCall
    \/ FeatureVectorCall
    \/ DailySeriesCall

SpecFn == InitFn /\ [][NextFn]_vars

(***************************************************************************)
(* Properties.                                                             *)
(***************************************************************************)

\* Worker w has fitted a model for p inside train_demand_model and has not
\* yet returned from it.
TrainingInFlight(w, p) ==
    wk[w].product = p /\ wk[w].pc \in {"dump_model", "dump_scaler"}

\* C1: at no time are two training runs of the same product in flight,
\* whether started by the train endpoint, by bulk training or by
\* predict_demand on a missing artifact.
C1_OneTrainingPerProduct ==
    \A p \in Products :
        Cardinality({w \in Workers : TrainingInFlight(w, p)}) <= 1

\* C2: a forecast of at least one day is computed with a model and a scaler
\* that come from one training run: when predict_demand starts its walk with
\* a model that needs the scaler, the scaler it holds is that model's.
C2_ForecastUsesOneRun ==
    \A w \in Workers :
        LET r == wk[w]
        IN  (r.pc = "forecast" /\ r.days > 0
                /\ r.models[r.product].kind = "linear_regression")
            => r.scalers[r.product] = r.models[r.product].run

\* The record of worker w after a step that changed it.
After(w) == IF wk'[w].pc = "idle" /\ wk[w].pc # "idle" THEN out' ELSE wk'[w]

\* What train_demand_model handed back in a record on its return.
TrainAnswer(r) ==
    CASE r.op = "train" -> r.result
      [] r.op = "bulk" -> r.results[Len(r.results)].result
      [] r.op = "reorder" /\ r.pc = "calc" -> r.forecast
      [] OTHER -> r.result

\* C3: for a product with fewer than 30 raw sales rows train_demand_model
\* returns the insufficient-data error, writes neither file of the product
\* and leaves the forecaster's model and scaler caches as they were; no
\* artifact of such a product ever exists.
C3_ShortHistoryStep ==
    \A w \in Workers :
        (wk[w].pc = "train" /\ history[wk[w].product].rows < 30 /\ wk'[w] # wk[w])
        => /\ TrainAnswer(After(w)) = Err("train", ErrRaw)
           /\ After(w).models = wk[w].models
           /\ After(w).scalers = wk[w].scalers
           /\ modelFile' = modelFile
           /\ scalerFile' = scalerFile

C3_ShortHistoryNoArtifact ==
    \A p \in Products :
        history[p].rows < 30 => modelFile[p] = NoModel /\ scalerFile[p] = 0

\* C3: both parts: every return of train_demand_model on a short history is
\* the insufficient-data error with files and caches untouched, and no
\* artifact of a short-history product ever exists.
C3_InsufficientData == [][C3_ShortHistoryStep]_vars /\ []C3_ShortHistoryNoArtifact

C3_Witness ==
    /\ out.op = "train"
    /\ out.pc = "idle"
    /\ history[out.product].rows = 29
    /\ out.result = Err("train", ErrRaw)

\* A demand-forecast request that found or trained the artifact of a product
\* with recent sales, and returned.
ForecastMade(r) ==
    /\ r.op = "predict"
    /\ r.pc = "idle"
    /\ r.models[r.product] # NoModel
    /\ r.scalers[r.product] # 0
    /\ history[r.product].recent # <<>>

\* C4: predict_demand with days_ahead = 0 on a trained product returns a
\* success with an empty prediction sequence and total 0.
C4_ZeroDaysSucceeds ==
    (ForecastMade(out) /\ out.days = 0)
    => /\ out.result.ok
       /\ out.result.predictions = <<>>
       /\ out.result.total_predicted_demand = 0

\* C5: in a returned forecast the lag-1 feature of every day after the first
\* is the prediction of the day before.
C5_LagSeesPrediction ==
    (out.op = "predict" /\ out.pc = "idle" /\ out.result.ok)
    => \A k \in 2..Len(out.result.predictions) :
          out.result.predictions[k].lag1 = out.result.predictions[k - 1].pred

\* A reorder-calculation request that returned.
ReorderMade(r) == r.op = "reorder" /\ r.pc = "idle"

\* C6: every successful result of calculate_reorder_point carries a method
\* label, "statistical" when the forecast was used and "simple" when the
\* fallback was.
C6_MethodLabelled ==
    (ReorderMade(out) /\ out.result.ok)
    => out.result.method = (IF out.forecast.ok THEN "statistical" ELSE "simple")

\* The trailing 30-day average the database answered, in tenths (none: 0).
TrailingTenths(r) == IF r.avg = NullAvg THEN 0 ELSE r.avg

\* x is n / d rounded to a nearest integer
Nearest(x, n, d) == 2 * (x * d - n) <= d /\ 2 * (n - x * d) <= d

\* C7 as stated: when the forecast step fails the call returns no error but
\* reorder point = 14 x trailing average x 1.5 and order quantity = 30 x
\* trailing average (as rounded in the result).
C7_FallbackNeverFails ==
    (ReorderMade(out) /\ ~out.forecast.ok)
    => /\ out.result.ok
       /\ Nearest(out.result.reorder_point, TrailingTenths(out) * 14 * 15, 100)
       /\ out.result.economic_order_quantity = TrailingTenths(out) * 3

\* The demand the simple calculation works with, in tenths: the trailing
\* average, or 0.1 when there is none or it is zero.
FallbackTenths(r) == IF r.avg = NullAvg \/ r.avg = 0 THEN 1 ELSE r.avg

\* C7 as amended: when the forecast step fails the call returns what the
\* simple calculation returns: an error if its query raised, and otherwise
\* a result labelled "simple" with reorder point = round(14 x d x 1.5) and
\* order quantity = round(30 x d), d being the trailing average or 0.1.
C7_FallbackIsSimple ==
    (ReorderMade(out) /\ ~out.forecast.ok)
    => IF out.queryFailed
       THEN ~out.result.ok
       ELSE /\ out.result.ok
            /\ out.result.method = "simple"
            /\ Nearest(out.result.reorder_point, FallbackTenths(out) * 14 * 15, 100)
            /\ out.result.economic_order_quantity = FallbackTenths(out) * 3

C7_Witness ==
    /\ ReorderMade(out)
    /\ ~out.forecast.ok
    /\ out.avg = NullAvg
    /\ out.result.ok
    /\ out.result.reorder_point = 2

\* C8: the winner of a training run has the least held-out error of the
\* three candidates, and it is the linear model whenever the linear model
\* has that least error.
C8_LinearWinsTies ==
    (out.op = "train" /\ out.pc = "idle" /\ out.result.ok)
    => LET sc == out.result.scores
       IN  /\ \A k \in Kinds : sc[out.result.model_type] <= sc[k]
           /\ (\A k \in Kinds : sc["linear_regression"] <= sc[k])
                 => out.result.model_type = "linear_regression"

\* The history of 45 consecutive days at one price.
IsConst45(h) == h.rows = 45 /\ h.span = 45 /\ h.constPrice

\* C9 as stated: on 45 consecutive days of quantity 10 at price 50
\* train_demand_model succeeds and persists an artifact.
C9_Const45Trains ==
    (out.op = "train" /\ out.pc = "idle" /\ IsConst45(history[out.product]))
    => /\ out.result.ok
       /\ modelFile[out.product] # NoModel

\* C9 as amended: on that history train_demand_model returns the error
\* "Insufficient clean data after feature extraction" and no artifact of
\* the product is ever persisted.
C9_Const45Rejected ==
    /\ (out.op = "train" /\ out.pc = "idle" /\ IsConst45(history[out.product]))
          => out.result = Err("train", ErrClean)
    /\ \A p \in Products :
          IsConst45(history[p]) => modelFile[p] = NoModel /\ scalerFile[p] = 0

C9_Witness ==
    /\ out.op = "train"
    /\ out.pc = "idle"
    /\ IsConst45(history[out.product])
    /\ ~out.result.ok

\* The history suffices for training: 30 raw rows, and 20 daily rows with
\* every lag, rolling and price feature defined.
Suffices(h) == h.rows >= 30 /\ ~h.constPrice /\ h.span - 30 >= 20

\* C10: predict_demand on a product without artifact first trains and then
\* forecasts with the model it trained; when that training fails for lack
\* of data it returns that error, no forecast, and the product has no
\* artifact afterwards.
C10_ImplicitTraining ==
    /\ \A w \in Workers :
          LET r == wk[w]
          IN  (r.pc = "forecast" /\ r.path = "train")
              => /\ Suffices(history[r.product])
                 /\ r.trained # 0
                 /\ r.models[r.product].run = r.trained
                 /\ r.scalers[r.product] = r.trained
    /\ (out.op = "predict" /\ out.pc = "idle" /\ out.path = "train")
          => IF out.result.ok
             THEN /\ out.trained # 0
                  /\ \A k \in 1..Len(out.result.predictions) :
                        out.result.predictions[k].model = out.trained
             ELSE ~Suffices(history[out.product])
                    => /\ out.result \in {Err("train", ErrRaw), Err("train", ErrClean)}
                       /\ out.trained = 0
                       /\ modelFile[out.product] = NoModel
                       /\ scalerFile[out.product] = 0

C10_Witness ==
    /\ out.op = "predict"
    /\ out.pc = "idle"
    /\ out.path = "train"
    /\ out.result.ok
    /\ Len(out.result.predictions) = 2
    /\ out.result.predictions[2].model = out.trained

\* Worker w returns from train_demand_model with a success in this step.
TrainSucceeds(w) ==
    wk[w].pc = "dump_scaler" /\ After(w).trained = wk[w].fitted.run

\* A step of train_demand_model by worker w.
TrainStep(w) ==
    wk[w].pc \in {"train", "dump_model", "dump_scaler"} /\ wk'[w] # wk[w]

C11_TrainStep ==
    \A w \in Workers :
        LET p == wk[w].product
            f == wk[w].fitted
        IN  /\ TrainSucceeds(w)
                => /\ modelFile'[p].run = f.run
                   /\ modelFile'[p].kind = SelectBest(f.scores).name
                   /\ scalerFile'[p] = f.run
            /\ TrainStep(w)
                => \A q \in Products \ {p} :
                      modelFile'[q] = modelFile[q] /\ scalerFile'[q] = scalerFile[q]

C11_LastTraining ==
    (out.op = "train" /\ out.pc = "idle" /\ out.result.ok)
    => /\ modelFile[out.product] =
             [run |-> out.result.run, kind |-> out.result.model_type]
       /\ scalerFile[out.product] = out.result.run

\* C11: with trainings run one after the other, a successful training of p
\* leaves under p's key the model of that run, which is the candidate
\* selected as its winner, and the scaler of that run; the pair stays
\* until p is trained again; no step of a training of p changes the model
\* or scaler file of another product.
C11_ArtifactPerProduct == [][C11_TrainStep]_vars /\ []C11_LastTraining

C11_Witness ==
    /\ out.op = "train"
    /\ out.pc = "idle"
    /\ out.result.ok
    /\ out.result.run = 3
    /\ modelFile[out.product].run = 3
    /\ scalerFile[out.product] = 3
    /\ \E q \in Products \ {out.product} :
          modelFile[q].run = 2 /\ scalerFile[q] = 2

\* The successful results of predict_demand on record: the one the last
\* demand-forecast request returned, and those handed to a reorder calculation.
ForecastsReturned ==
    {r.result : r \in {x \in {out} : x.op = "predict" /\ x.pc = "idle" /\ x.result.ok}}
      \cup {r.forecast : r \in {x \in {out} \cup {wk[w] : w \in Workers} : x.forecast.ok}}

\* C12: in every successful result of predict_demand the predicted quantity
\* of every day is at least 0.
C12_NonNegative ==
    \A f \in ForecastsReturned :
        \A k \in 1..Len(f.predictions) : f.predictions[k].predicted_demand >= 0

C12_Witness ==
    /\ out.op = "predict"
    /\ out.pc = "idle"
    /\ out.result.ok
    /\ Len(out.result.predictions) = 2
    /\ out.result.predictions[1].predicted_demand = 0
    /\ out.result.predictions[2].predicted_demand > 0

\* The returned per-day quantities of rows k.. added up.
RECURSIVE PerDayTotal(_, _)
PerDayTotal(rows, k) ==
    IF k > Len(rows) THEN 0 ELSE rows[k].predicted_demand + PerDayTotal(rows, k + 1)

\* C13: in every successful result of predict_demand the returned total is
\* exactly the sum of the returned (rounded) per-day quantities.
C13_TotalIsSum ==
    \A f \in ForecastsReturned :
        f.total_predicted_demand = PerDayTotal(f.predictions, 1)

C13_Witness ==
    /\ out.op = "predict"
    /\ out.pc = "idle"
    /\ out.result.ok
    /\ Len(out.result.predictions) = 2
    /\ out.result.predictions[1].pred = 2006
    /\ out.result.predictions[2].pred = 2006
    /\ out.result.total_predicted_demand = 402

\* generate_reorder_suggestions has returned its list.
Suggested == ars.pc = "done"

\* C15: the output of generate_reorder_suggestions has an entry for every
\* scanned pair whose reorder calculation failed.
C15_FailuresReported ==
    Suggested
    => \A pair \in ars.failed :
          \E k \in 1..Len(ars.output) : ars.output[k].pair = pair

\* The scanned pairs whose reorder calculation returned a result.
Calculated ==
    {ars.rows[k].pair : k \in 1..Len(ars.rows)} \ ars.failed

\* C16: once the scan is over the returned list has a suggestion for every
\* scanned pair whose calculation succeeded, however many others failed.
C16_FailureIsolated ==
    (Suggested /\ ~ars.queryFailed)
    => \A pair \in Calculated :
          \E k \in 1..Len(ars.output) : ars.output[k].pair = pair

C16_Witness ==
    /\ Suggested
    /\ Len(ars.rows) = 3
    /\ ars.failed = {ars.rows[1].pair, ars.rows[3].pair}
    /\ Len(ars.output) = 1
    /\ ars.output[1].pair = ars.rows[2].pair

\* C17: in a returned list every suggestion of stock 0 has priority 100 and
\* stands before every suggestion of positive stock.
C17_OutOfStockFirst ==
    Suggested
    => \A k \in 1..Len(ars.output) :
          ars.output[k].current_stock = 0
          => /\ ars.output[k].priority = 100
             /\ \A j \in 1..Len(ars.output) :
                   ars.output[j].current_stock > 0 => k < j

C17_Witness ==
    /\ Suggested
    /\ Len(ars.output) = 3
    /\ ars.output[1].current_stock = 0
    /\ ars.output[1].pair = 3
    /\ ars.output[2].current_stock > 0
    /\ ars.output[3].current_stock > 0

\* C18: a returned list is in descending order of priority, and suggestions
\* of equal priority are in the order of the scan.
C18_StableDescending ==
    Suggested
    => \A j, k \in 1..Len(ars.output) :
          j < k => \/ ars.output[j].priority > ars.output[k].priority
                   \/ /\ ars.output[j].priority = ars.output[k].priority
                      /\ ars.output[j].pair < ars.output[k].pair

C18_Witness ==
    /\ Suggested
    /\ Len(ars.output) = 3
    /\ ars.output[1].pair = 2
    /\ ars.output[2].pair = 3
    /\ ars.output[3].pair = 1
    /\ ars.output[1].priority = ars.output[2].priority
    /\ ars.output[2].priority > ars.output[3].priority

\* optimize_price has returned.
Optimized == po.op = "optimize" /\ po.pc = "done"

\* C14: the optimal_price of every successful optimize_price result is
\* strictly greater than the cost the optimization worked with.
C14_AboveCost ==
    (Optimized /\ po.result.ok)
    => po.result.optimal_price > EffectiveCost(listing, po.current_cost)

\* get_price_elasticity has returned to its endpoint.
Estimated == po.op = "elasticity" /\ po.pc = "done"

\* The prices of the fetched rows lie in b of the five equal-width ranges
\* between the lowest and the highest price.
Populates(b) ==
    LET ps == listing.prices
        lo == MinPrice(ps)
        hi == MaxPrice(ps)
    IN  \E k \in 1..Len(ps) :
           IF lo = hi THEN b = 3
           ELSE /\ 5 * (ps[k] - lo) <= b * (hi - lo)
                /\ \/ 5 * (ps[k] - lo) > (b - 1) * (hi - lo)
                   \/ (b = 1 /\ ps[k] = lo)

PopulatedRanges == {b \in 1..5 : Populates(b)}

\* C19: get_price_elasticity returns the insufficient-variation error
\* exactly when there are fewer than 10 observations; otherwise the
\* insufficient-price-points error exactly when fewer than 3 of the 5 price
\* ranges are populated; otherwise a success whose data_points is the
\* number of populated ranges.
C19_ElasticityOutcome ==
    Estimated
    => IF Len(listing.prices) < 10
       THEN po.result = Err("elasticity", ErrVariation)
       ELSE IF Cardinality(PopulatedRanges) < 3
       THEN po.result = Err("elasticity", ErrPoints)
       ELSE /\ po.result.ok
            /\ po.result.data_points = Cardinality(PopulatedRanges)

\* C20 as stated: whenever the product exists and get_price_elasticity
\* returned an error, optimize_price returns a success that reports
\* elasticity -1.0.
C20_AlwaysSucceeds ==
    (Optimized /\ listing.exists /\ ~po.estimate.ok)
    => po.result.ok /\ po.result.price_elasticity = 0 - 1

\* C20 as amended: an elasticity error never makes optimize_price fail:
\* when the product exists and get_price_elasticity returned an error,
\* optimize_price fails only for a current price of 0 or a target margin
\* of 100%, and otherwise returns a success that reports elasticity -1.0.
C20_DefaultElasticity ==
    (Optimized /\ listing.exists /\ ~po.estimate.ok)
    => IF listing.price = 0 \/ po.target_margin = 100
       THEN po.result = Err("optimize", ErrZeroDiv)
       ELSE po.result.ok /\ po.result.price_elasticity = 0 - 1

C20_Witness ==
    /\ Optimized
    /\ listing.exists
    /\ po.estimate = Err("elasticity", ErrPoints)
    /\ po.result.ok
    /\ po.result.price_elasticity = 0 - 1
    /\ po.result.optimal_price = 40

\* A call of op that has returned.
Returned(op) == fn.op = op /\ fn.done

\* C21: for fixed demand statistics, calculate_reorder_point is monotone in
\* service_level: the safety stock and the reorder point a call returned
\* are not smaller than those of any lower service level, and not larger
\* than those of any higher one.
C21_MonotoneInServiceLevel ==
    Returned("calculate_reorder_point") =>
        \A s \in ServiceLevels :
            LET st == fn.args.stats
                other == ReorderPoint(st.avg_daily_demand,
                                      DemandStd(st.observations,
                                                st.avg_daily_demand,
                                                st.sample_std), s)
            IN  /\ s <= fn.args.service_level =>
                      /\ other.safety_stock <= fn.result.safety_stock
                      /\ other.reorder_point <= fn.result.reorder_point
                /\ s >= fn.args.service_level =>
                      /\ other.safety_stock >= fn.result.safety_stock
                      /\ other.reorder_point >= fn.result.reorder_point

\* The scenario of a 95% service level with average daily demand 20 and
\* deviation 6: safety stock 26 and reorder point 166, above the 90% ones.
C21_Witness ==
    /\ Returned("calculate_reorder_point")
    /\ fn.args.service_level = 95
    /\ fn.args.stats = [avg_daily_demand |-> 2000, observations |-> 60,
                        sample_std |-> 600]
    /\ fn.result.safety_stock = 26
    /\ fn.result.reorder_point = 166
    /\ ReorderPoint(2000, 600, 90).safety_stock < 26


\* C25: the priority is 100 for a stock of 0 or less, else 80 for a stock of
\* at most 50% of the reorder level, else 60 for at most 75% of it, else
\* 40, whatever the stock and the level.
C25_PriorityBands ==
    Returned("_calculate_priority") =>
        LET stock_pct == 100 * fn.args.current_stock
            level == fn.args.reorder_level
        IN  /\ fn.args.current_stock <= 0 => fn.result = 100
            /\ (fn.args.current_stock > 0 /\ stock_pct <= 50 * level)
                  => fn.result = 80
            /\ (fn.args.current_stock > 0 /\ stock_pct > 50 * level
                    /\ stock_pct <= 75 * level)
                  => fn.result = 60
            /\ (fn.args.current_stock > 0 /\ stock_pct > 75 * level)
                  => fn.result = 40

\* A stock of exactly 75% of the level got 60, as did one above the level 40.
C25_Witness ==
    /\ Returned("_calculate_priority")
    /\ fn.args = [current_stock |-> 3, reorder_level |-> 4]
    /\ fn.result = 60
    /\ CalculatePriority(9, 4) = 40
    /\ CalculatePriority(2, 4) = 80


\* C26: the feature row predict_demand hands to an estimator has the same
\* feature names, in the same order, as the columns the estimator was
\* fitted on, whatever the length of the recent history.
C26_SameFeatures ==
    Returned("predict_demand.feature_row") => fn.result.given = fn.result.fitted


\* The quantity sold on calendar day d: the sum over its instants.
RECURSIVE SoldUpTo(_, _, _)
SoldUpTo(sold, d, slot) ==
    IF slot < 0 THEN 0 ELSE sold[<<d, slot>>] + SoldUpTo(sold, d, slot - 1)
SoldOn(sold, d) == SoldUpTo(sold, d, LastSlot)

\* C24: the daily series train_demand_model builds has exactly one row for
\* every calendar day from the first to the last sale date, in increasing
\* order with no gaps, and each day's quantity is the sum of the quantities
\* of the sales dated that day (0 for a day without sales).
C24_OneRowPerDay ==
    (Returned("train_demand_model.daily_sales") /\ fn.result.ok) =>
        LET sold == fn.args.sold
            days == {t[1] : t \in Groups(sold)}
            first == CHOOSE d \in days : \A e \in days : d <= e
            last == CHOOSE d \in days : \A e \in days : e <= d
            series == fn.result.daily_sales
        IN  /\ Len(series) = last - first + 1
            /\ \A k \in 1..Len(series) :
                  /\ series[k].sale_date[1] = first + k - 1
                  /\ series[k].quantity = SoldOn(sold, series[k].sale_date[1])


\* C27: a train_demand_model call that returns an error, a failure to
\* write the model or the scaler included, leaves the persisted model and
\* scaler as they were, so that outside a call's two writes the stored
\* model and scaler of a product are those of one training run.
C27_SameTrainingRun ==
    (\A w \in Workers : wk[w].pc # "dump_scaler") =>
        \A p \in Products : modelFile[p].run = scalerFile[p]


\* C28: after any sequence of train and predict calls, ones that failed
\* part-way included, a product is in the forecaster's model cache exactly
\* when it is in its scaler cache.
C28_CachesAgree ==
    \A p \in Products : (out.models[p] # NoModel) <=> (out.scalers[p] # 0)


\* C22: a request to the admin-only bulk-train-models endpoint by a user
\* whose role is manager (an active one) is answered 403 and schedules no
\* training, whatever other users exist.
C22_ManagerRejected ==
    (/\ resp.op = "bulk_train_models"
     /\ resp.sender.role = "manager"
     /\ resp.sender.is_active) =>
        (resp.status = 403 /\ ~resp.scheduled)


\* The sum of quantity_change over the transactions recorded for a location.
RECURSIVE LedgerSum(_, _)
LedgerSum(rows, location_id) ==
    IF rows = <<>> THEN 0
    ELSE (IF rows[1].location_id = location_id THEN rows[1].quantity_change ELSE 0)
         + LedgerSum(Tail(rows), location_id)

\* A step in which an update_stock call is answered 200.
StockUpdated ==
    /\ resp'.op = "update_stock" /\ resp'.status = 200
    /\ <<resp', ledger', stock'>> # <<resp, ledger, stock>>

C23_UpdateStep ==
    StockUpdated =>
        LET l == resp'.location_id
            d == resp'.quantity_change
        IN  /\ stock' = [stock EXCEPT ![l] = stock[l] + d]
            /\ resp'.new_stock_quantity = stock[l] + d
            /\ Len(ledger') = Len(ledger) + 1
            /\ SubSeq(ledger', 1, Len(ledger)) = ledger
            /\ ledger'[Len(ledger')].location_id = l
            /\ ledger'[Len(ledger')].quantity_change = d

C23_Balance ==
    \A l \in Locations : stock[l] = opening[l] + LedgerSum(ledger, l)

\* C23: each successful update_stock with change d on a stock s stores and
\* returns s + d and records one transaction whose quantity_change is d;
\* hence the stored stock is the initial stock plus the sum of
\* quantity_change over the recorded transactions.
C23_StockIsLedgerSum == [][C23_UpdateStep]_vars /\ []C23_Balance

\* Two receipts and an issue at location 1: 5 + 2 - 3 + 2 = 6.
C23_Witness ==
    /\ Len(ledger) = 3
    /\ opening[1] = 5
    /\ stock[1] = 6
    /\ LedgerSum(ledger, 1) = 1
    /\ resp.status = 200 /\ resp.new_stock_quantity = 6

\* The pending alerts of a location.
PendingAlerts(location_id) ==
    {k \in 1..Len(alerts) :
        alerts[k].location_id = location_id /\ alerts[k].status = "pending"}

\* C29: after any sequence of update_stock calls and check_reorder_levels
\* runs, runs scheduled by overlapping requests included, there is at most
\* one pending reorder alert for each product and location.
C29_OnePendingAlert ==
    \A l \in Locations : Cardinality(PendingAlerts(l)) <= 1

\* Location 1 stayed at or below the reorder level through three updates
\* whose checks have all run, an alert of it was acknowledged and a later
\* check raised the one that is pending.
C29_Witness ==
    /\ Len(ledger) = 3 /\ checks = 0
    /\ stock[1] <= ProductReorderLevel
    /\ Cardinality(PendingAlerts(1)) = 1
    /\ \E k \in 1..Len(alerts) :
          alerts[k].location_id = 1 /\ alerts[k].status = "acknowledged"

\* A step in which an update_stock call is refused.
StockRefused ==
    /\ resp'.op = "update_stock" /\ resp'.status # 200
    /\ resp' # resp

C30_RefusedStep == StockRefused => UNCHANGED <<stock, ledger, checks, alerts>>

C30_NonNegative == \A l \in Locations : stock[l] >= 0

\* C30: stock is never negative after any sequence of update_stock calls on
\* a non-negative stock, and a rejected call changes neither the stock nor
\* the ledger and schedules no reorder check.
C30_NeverNegative == [][C30_RefusedStep]_vars /\ []C30_NonNegative

\* An issue of 3 from a stock of 2 was answered 400 and the stock is 2.
C30_Witness ==
    /\ resp.op = "update_stock" /\ resp.status = 400
    /\ resp.quantity_change = 0 - 3
    /\ resp.location_id = 1
    /\ stock[1] = 2
    /\ Len(ledger) = 1 /\ checks = 1


====
